---- MODULE Spec2Model ----
(***************************************************************************)
(* A model of the clustering drivers (pegasus/tools/clustering.py) and of  *)
(* the diffusion-map routines (scCloud/tools/diffusion_map.py).            *)
(*                                                                         *)
(* The annotated-data container is three Python mappings, obs, obsm and    *)
(* uns, each a function whose DOMAIN is the set of keys present.  The      *)
(* external numeric libraries (k-means, the community optimisers, the      *)
(* eigen-solvers) are choices over the results they can return.            *)
(***************************************************************************)
EXTENDS Integers, Sequences, FiniteSets, TLC

VARIABLES
    obs,    \* data.obs: per-cell columns (cluster labels, pseudotime)
    obsm,   \* data.obsm: per-cell matrices (X_pca, X_diffmap, X_diffmap_pca)
    uns,    \* data.uns: unstructured slots (W_<rep>, diffmap_evals, roots)
    last,   \* what the last driver call did: its name, arguments and outcome
    procs,  \* the drivers running concurrently on the container
    km,     \* the frame of partition_cells_by_kmeans: its arguments and locals
    fn      \* the frame of a call of a pure numeric function

vars == <<obs, obsm, uns, last, procs, km, fn>>

Min(a, b) == IF a < b THEN a ELSE b

Image(f) == {f[x] : x \in DOMAIN f}

RECURSIVE SumOver(_, _)
SumOver(f, S) ==
    IF S = {} THEN 0
    ELSE LET x == CHOOSE y \in S : TRUE IN f[x] + SumOver(f, S \ {x})

\* A variable a specification does not use keeps this value.
Unused == [pc |-> "unused"]

(***************************************************************************)
(* partition_cells_by_kmeans (clustering.py 157-183)                       *)
(***************************************************************************)

NumRows == 3
NumPoints == 3
MaxK1 == 2
MaxK2 == 2

Rows == 1..NumRows
\* A row of the coordinate matrix is a point on a line: what matters to
\* k-means here is which rows coincide.
Points == 0..(NumPoints - 1)

\* KMeans(n_clusters = k).fit(X[idx, :]): the label arrays sklearn can return.
\* It refuses an empty sample, k = 0 and k above the number of rows; rows that
\* coincide get one label, and it leaves a label unused only when the sample
\* has fewer distinct rows than k.
KMeansFit(X, idx, k) ==
    IF idx = {} \/ k = 0 \/ Cardinality(idx) < k
    THEN {}
    ELSE {l \in [idx -> 0..(k - 1)] :
            /\ \A r, s \in idx : X[r] = X[s] => l[r] = l[s]
            /\ Cardinality(Image(l)) = Min(k, Cardinality({X[r] : r \in idx}))}

\* idx = coarse == i
CoarseIdx(coarse, i) == {r \in DOMAIN coarse : coarse[r] = i}

\* nc = min(n_clusters2, idx.sum())
FineCount(n_clusters2, idx) == Min(n_clusters2, Cardinality(idx))

\* A mutant of NextBase: the offset advances by the cap, not by nc.
NextBaseByCap(base_sum, nc, n_clusters2) == base_sum + n_clusters2

\* base_sum += nc
NextBase(base_sum, nc, n_clusters2) == base_sum + nc

\* labels[idx] = base_sum + km.labels_
AssignFine(labels, idx, base_sum, local) ==
    [r \in DOMAIN labels |-> IF r \in idx THEN base_sum + local[r] ELSE labels[r]]

KMInit ==
    /\ km \in [pc : {"start"}, X : [Rows -> Points], n_clusters : 1..MaxK1,
               n_clusters2 : 0..MaxK2, coarse : {<<>>}, labels : {<<>>},
               base_sum : {0}, i : {0}, fits : {<<>>}]
    /\ obs = Unused /\ obsm = Unused /\ uns = Unused
    /\ last = Unused /\ procs = Unused /\ fn = Unused

\* km.fit(X); coarse = km.labels_.copy(); labels = coarse.copy(); base_sum = 0
KMCoarseFit ==
    /\ km.pc = "start"
    /\ LET fits == KMeansFit(km.X, Rows, km.n_clusters) IN
        IF fits = {}
        THEN km' = [km EXCEPT !.pc = "error"]
        ELSE \E l \in fits :
                km' = [km EXCEPT !.pc = "loop", !.coarse = l, !.labels = l]
    /\ UNCHANGED <<obs, obsm, uns, last, procs, fn>>

\* One pass of the loop body for i in range(n_clusters).
KMLoopIter ==
    /\ km.pc = "loop"
    /\ km.i < km.n_clusters
    /\ LET idx == CoarseIdx(km.coarse, km.i)
           nc == FineCount(km.n_clusters2, idx)
           fits == KMeansFit(km.X, idx, nc)
       IN  IF fits = {}
           THEN km' = [km EXCEPT !.pc = "error"]
           ELSE \E local \in fits :
                  km' = [km EXCEPT
                           !.labels = AssignFine(km.labels, idx, km.base_sum, local),
                           !.base_sum = NextBase(km.base_sum, nc, km.n_clusters2),
                           !.fits = Append(km.fits, [nc |-> nc, used |-> Image(local)]),
                           !.i = km.i + 1]
    /\ UNCHANGED <<obs, obsm, uns, last, procs, fn>>

\* return labels
KMReturn ==
    /\ km.pc = "loop"
    /\ km.i = km.n_clusters
    /\ km' = [km EXCEPT !.pc = "done"]
    /\ UNCHANGED <<obs, obsm, uns, last, procs, fn>>

KMNext == KMCoarseFit \/ KMLoopIter \/ KMReturn

SpecKMeans == KMInit /\ [][KMNext]_vars

\* sum over the coarse clusters i of min(K2, |cluster i|)
FineTotal ==
    SumOver([i \in 0..(km.n_clusters - 1) |->
                FineCount(km.n_clusters2, CoarseIdx(km.coarse, i))],
            0..(km.n_clusters - 1))

FineDeterminesCoarse ==
    \A r, s \in Rows : km.labels[r] = km.labels[s] => km.coarse[r] = km.coarse[s]

\* C1 as stated: the returned fine labels are exactly [0, FineTotal) and no
\* fine label is shared by rows of two coarse clusters.
C1_Original ==
    km.pc = "done" =>
        /\ Image(km.labels) = 0..(FineTotal - 1)
        /\ FineDeterminesCoarse

\* C1 amended: the returned fine labels lie in [0, FineTotal), they fill that
\* range whenever every inner k-means used all nc of its labels, and no fine
\* label is shared by rows of two coarse clusters.
C1_FineLabels ==
    km.pc = "done" =>
        /\ Image(km.labels) \subseteq 0..(FineTotal - 1)
        /\ (\A j \in DOMAIN km.fits : km.fits[j].used = 0..(km.fits[j].nc - 1))
              => Image(km.labels) = 0..(FineTotal - 1)
        /\ FineDeterminesCoarse

\* Two coarse clusters were refined, each into all of its nc labels.
C1_Witness ==
    /\ km.pc = "done"
    /\ km.n_clusters = 2
    /\ Cardinality(Image(km.coarse)) = 2
    /\ km.base_sum >= 3
    /\ \A j \in DOMAIN km.fits : km.fits[j].used = 0..(km.fits[j].nc - 1)

(***************************************************************************)
(* Sparse matrices and floating-point values                               *)
(***************************************************************************)

\* A sparse matrix is its order n and its stored entries: data maps each
\* stored index pair <<row, col>> to its weight (a stored weight may be 0).

MatNodes(W) == 1..W.n

\* The pairs {i, j}, i < j, of 1..n as index pairs <<i, j>>.
UpperPairs(n) == {e \in (1..n) \X (1..n) : e[1] < e[2]}

\* The symmetric matrix whose upper entries are f (a function on some of the
\* upper pairs).
SymMatrix(n, f) ==
    [n |-> n,
     data |-> [e \in (DOMAIN f) \cup {<<d[2], d[1]>> : d \in DOMAIN f} |->
                 IF e \in DOMAIN f THEN f[e] ELSE f[<<e[2], e[1]>>]]]

\* A float as numpy computes it here: num / sqrt(rad) when finite, or one of
\* the IEEE results of a division by zero; "raise" is an exception instead of
\* a value.
Fin(num, rad) == [kind |-> "fin", num |-> num, rad |-> rad]
FNan == [kind |-> "nan", num |-> 0, rad |-> 1]
FInf == [kind |-> "inf", num |-> 0, rad |-> 1]
FRaise == [kind |-> "raise", num |-> 0, rad |-> 1]

\* A mutant of FDivSqrt: a division by zero raises, as Python's own floats do.
FDivSqrtRaising(x, d) ==
    IF d = 0 THEN FRaise
    ELSE IF x.kind = "fin" THEN Fin(x.num, x.rad * d) ELSE x

\* x / sqrt(d) on a float64 array: a zero divisor gives nan (0/0) or inf with
\* a RuntimeWarning, never an exception.
FDivSqrt(x, d) ==
    CASE x.kind # "fin" -> x
      [] d = 0 /\ x.num = 0 -> FNan
      [] d = 0 /\ x.num # 0 -> FInf
      [] OTHER -> Fin(x.num, x.rad * d)

(***************************************************************************)
(* calculate_normalized_affinity (diffusion_map.py 14-24)                  *)
(***************************************************************************)

\* diag = W.sum(axis=1).A1
Degrees(W) ==
    [i \in MatNodes(W) |->
        SumOver(W.data, {e \in DOMAIN W.data : e[1] = i})]

\* W_norm.data /= diag_half[W_norm.row]; W_norm.data /= diag_half[W_norm.col]
\* with diag_half = np.sqrt(diag); returns (W_norm, diag, diag_half).
calculate_normalized_affinity(W) ==
    LET diag == Degrees(W)
        data == [e \in DOMAIN W.data |->
                    FDivSqrt(FDivSqrt(Fin(W.data[e], 1), diag[e[1]]), diag[e[2]])]
    IN  [raised |-> \E e \in DOMAIN data : data[e].kind = "raise",
         W_norm |-> [n |-> W.n, data |-> data],
         diag |-> diag]

(***************************************************************************)
(* connected_components(W, directed=True, connection="strong")             *)
(***************************************************************************)

RECURSIVE ReachSet(_, _, _)
ReachSet(W, S, steps) ==
    IF steps = 0 THEN S
    ELSE ReachSet(W, S \cup {e[2] : e \in {d \in DOMAIN W.data : d[1] \in S}},
                  steps - 1)

\* j can be reached from i along stored entries.
Reaches(W, i, j) == j \in ReachSet(W, {i}, W.n)

\* A mutant of ConnectedComponents: connection="weak", the entries read in
\* both directions.
WeakComponents(W) ==
    LET U == [n |-> W.n,
              data |-> [e \in (DOMAIN W.data) \cup {<<d[2], d[1]>> : d \in DOMAIN W.data}
                          |-> 1]]
    IN  Cardinality({ReachSet(U, {i}, U.n) : i \in MatNodes(W)})

\* nc of nc, labels = connected_components(...): the number of strongly
\* connected components; every stored entry is an edge.
ConnectedComponents(W) ==
    LET reach == [i \in MatNodes(W) |-> ReachSet(W, {i}, W.n)]
    IN  Cardinality({{j \in reach[i] : i \in reach[j]} : i \in MatNodes(W)})

(***************************************************************************)
(* The eigenvalues of the normalised affinity                              *)
(***************************************************************************)

Abs(x) == IF x < 0 THEN -x ELSE x

Reverse(s) == [j \in 1..Len(s) |-> s[Len(s) + 1 - j]]

OffDiagonal(n) == {e \in (1..n) \X (1..n) : e[1] # e[2]}

UnitWeights(W) == \A e \in DOMAIN W.data : W.data[e] = 1

\* The complete graph on n >= 2 nodes, without self-loops.
IsComplete(W) ==
    W.n >= 2 /\ UnitWeights(W) /\ DOMAIN W.data = OffDiagonal(W.n)

\* A complete bipartite graph (a star, a 4-cycle, a single edge, ...).
IsCompleteBipartite(W) ==
    /\ W.n >= 2
    /\ UnitWeights(W)
    /\ \E A \in (SUBSET MatNodes(W)) \ {{}, MatNodes(W)} :
          LET B == MatNodes(W) \ A IN DOMAIN W.data = (A \X B) \cup (B \X A)

\* The eigenvalues of D^(-1/2) W D^(-1/2) in descending order, as integers
\* over a common scale, for the graphs whose spectrum has a closed form: the
\* complete graph K_n has 1 and (n-1) times -1/(n-1); a complete bipartite
\* graph has 1, (n-2) times 0 and -1.  For any other matrix the values are
\* not determined here (exact = FALSE).
NormalizedSpectrum(W) ==
    CASE IsComplete(W) ->
            [exact |-> TRUE, scale |-> W.n - 1,
             vals |-> [j \in 1..W.n |-> IF j = 1 THEN W.n - 1 ELSE -1]]
      [] IsCompleteBipartite(W) ->
            [exact |-> TRUE, scale |-> 1,
             vals |-> [j \in 1..W.n |-> IF j = 1 THEN 1 ELSE IF j = W.n THEN -1 ELSE 0]]
      [] OTHER -> [exact |-> FALSE, scale |-> 1, vals |-> <<>>]

\* One eigenvalue as a solver returns it: its value over the scale when the
\* spectrum is known, and its position pos in the solver's own output.
EigenEntry(sp, idx, pos) ==
    [exact |-> sp.exact, val |-> IF sp.exact THEN sp.vals[idx] ELSE 0,
     scale |-> sp.scale, pos |-> pos]

\* The ways to list m of the eigenvalues vals, largest magnitude first: equal
\* magnitudes come in any order.
TopMagnitudeOrders(vals, m) ==
    {p \in [1..m -> DOMAIN vals] :
        /\ \A a, b \in 1..m : a # b => p[a] # p[b]
        /\ \A a \in 1..(m - 1) : Abs(vals[p[a]]) >= Abs(vals[p[a + 1]])
        /\ \A q \in (DOMAIN vals) \ Image(p) : Abs(vals[q]) <= Abs(vals[p[m]])}

\* U, S, VT = randomized_svd(W_norm, n_components=k); Lambda = signs * S:
\* min(k, n) eigenvalues by descending singular value |lambda|.
RandomizedLambda(W, k) ==
    LET sp == NormalizedSpectrum(W)
        m == Min(k, W.n)
    IN  IF sp.exact
        THEN {[j \in 1..m |-> EigenEntry(sp, p[j], j)] : p \in TopMagnitudeOrders(sp.vals, m)}
        ELSE {[j \in 1..m |-> EigenEntry(sp, j, j)]}

\* The indices of I in descending order: vals is descending, so this lists the
\* chosen eigenvalues in ascending order.
RECURSIVE DescendingIndices(_)
DescendingIndices(I) ==
    IF I = {} THEN <<>>
    ELSE LET top == CHOOSE i \in I : \A j \in I : j <= i
         IN  <<top>> \o DescendingIndices(I \ {top})

\* Lambda, U = eigsh(W_norm, k=k, v0=v0): the k eigenvalues of largest
\* magnitude (which="LM"), returned in ascending algebraic order; needs k < n.
EigshLambda(W, k) ==
    LET sp == NormalizedSpectrum(W) IN
    IF sp.exact
    THEN {LET asc == DescendingIndices(Image(p))
          IN  [j \in 1..k |-> EigenEntry(sp, asc[j], j)] :
            p \in TopMagnitudeOrders(sp.vals, k)}
    ELSE {[j \in 1..k |-> EigenEntry(sp, j, j)]}

(***************************************************************************)
(* calculate_diffusion_map (diffusion_map.py 27-62)                        *)
(***************************************************************************)

DMError(e) ==
    [err |-> e, Lambda |-> <<>>, Phi_pt |-> [nrows |-> 0, ncols |-> 0, scaled |-> <<>>]]

\* Lambda_new = Lambda / (1 - alpha * Lambda), kept as the quotient it is.
Rescaled(Lambda, alpha) ==
    [j \in 1..Len(Lambda) |-> [lambda |-> Lambda[j], alpha |-> alpha]]

\* A mutant of DropFirst: nothing is dropped.
DropNothing(Lambda) == Lambda

\* Lambda = Lambda[1:]; U = U[:, 1:]
DropFirst(Lambda) == SubSeq(Lambda, 2, Len(Lambda))

\* A mutant of DiffusionResult: Lambda_new is returned in place of Lambda.
DiffusionResultRescaled(W, full, alpha) ==
    LET Lambda == DropFirst(full) IN
    [err |-> "none",
     Lambda |-> Rescaled(Lambda, alpha),
     Phi_pt |-> [nrows |-> W.n, ncols |-> Len(Lambda),
                 scaled |-> Rescaled(Lambda, alpha)]]

\* Lines 52-62: drop the first component, rescale, return (Phi_pt, Lambda).
DiffusionResult(W, full, alpha) ==
    LET Lambda == DropFirst(full) IN
    [err |-> "none",
     Lambda |-> Lambda,
     Phi_pt |-> [nrows |-> W.n, ncols |-> Len(Lambda),
                 scaled |-> Rescaled(Lambda, alpha)]]

\* The results calculate_diffusion_map(W, n_components, alpha, solver, ...)
\* can return; err names the exception when it raises.
calculate_diffusion_map(W, n_components, alpha, solver) ==
    IF ConnectedComponents(W) # 1
    THEN {DMError("assert nc == 1")}
    ELSE IF calculate_normalized_affinity(W).raised
    THEN {DMError("ZeroDivisionError")}
    ELSE IF solver = "randomized"
    THEN {DiffusionResult(W, L, alpha) : L \in RandomizedLambda(W, n_components)}
    ELSE IF solver # "eigsh"
    THEN {DMError("assert solver == eigsh")}
    ELSE IF n_components >= W.n
    THEN {DMError("eigsh: k >= N")}
    ELSE {DiffusionResult(W, Reverse(L), alpha) : L \in EigshLambda(W, n_components)}

(***************************************************************************)
(* The numeric functions on their own: calculate_normalized_affinity and   *)
(* calculate_diffusion_map applied to a bounded family of matrices         *)
(***************************************************************************)

NumNodes == 4
NumWeightedNodes == 3
MaxWeight == 1
MaxStored == 2
MaxEdits == 1
MaxComponents == 6

\* The unit-weight undirected graphs on n nodes.
UnitGraphs(n) ==
    {SymMatrix(n, [e \in P |-> 1]) : P \in SUBSET UpperPairs(n)}

RECURSIVE SubsetsUpTo(_, _)
SubsetsUpTo(S, k) ==
    IF k = 0 THEN {{}}
    ELSE LET P == SubsetsUpTo(S, k - 1)
         IN  P \cup {p \cup {x} : p \in P, x \in S}

\* The symmetric non-negative matrices on n nodes with up to MaxStored stored
\* pairs; a stored weight may be 0.
WeightedGraphs(n) ==
    {SymMatrix(n, f) :
        f \in UNION {[P -> 0..MaxWeight] : P \in SubsetsUpTo(UpperPairs(n), MaxStored)}}

\* Two disconnected triangles on six nodes.
TriangleA == {1, 2, 3}
TriangleB == {4, 5, 6}
TriangleNodes == TriangleA \cup TriangleB
TriangleEntries ==
    {e \in TriangleNodes \X TriangleNodes :
        e[1] # e[2] /\ (e[1] \in TriangleA <=> e[2] \in TriangleA)}

\* The unit-weight matrix on the six nodes with the stored entries E.
SixNodeMatrix(E) == [n |-> Cardinality(TriangleNodes), data |-> [e \in E |-> 1]]

TwoTriangles == SixNodeMatrix(TriangleEntries)

\* The two triangles joined by the undirected edge {3, 4}.
BridgedTriangles == SixNodeMatrix(TriangleEntries \cup {<<3, 4>>, <<4, 3>>})

\* An edit toggles one directed entry <<i, j>> or, an undirected edge, the two
\* entries <<i, j>> and <<j, i>>.
TriangleEdits ==
    {{e} : e \in {d \in TriangleNodes \X TriangleNodes : d[1] # d[2]}}
        \cup {{e, <<e[2], e[1]>>} : e \in {d \in TriangleNodes \X TriangleNodes : d[1] < d[2]}}

\* The two triangles after up to MaxEdits edits.
EditedTriangles ==
    {LET E == UNION edits
     IN  SixNodeMatrix((TriangleEntries \ E) \cup (E \ TriangleEntries)) :
        edits \in SubsetsUpTo(TriangleEdits, MaxEdits)}

NumericInputs ==
    (UNION {UnitGraphs(n) : n \in 1..NumNodes})
        \cup (UNION {WeightedGraphs(n) : n \in 1..NumWeightedNodes})
        \cup EditedTriangles

Solvers == {"randomized", "eigsh", "arpack"}

\* alpha, in hundredths (the default of diffmap is 0.5).
Alphas == {50}

NumericInit ==
    /\ fn \in [pc : {"start"}, op : {"none"}, W : NumericInputs,
               n_components : {0}, solver : {"none"}, alpha : {0}, out : {<<>>}]
    /\ obs = Unused /\ obsm = Unused /\ uns = Unused
    /\ last = Unused /\ procs = Unused /\ km = Unused

CallNormalizedAffinity ==
    /\ fn.pc = "start"
    /\ fn' = [fn EXCEPT !.pc = "returned", !.op = "calculate_normalized_affinity",
                        !.out = calculate_normalized_affinity(fn.W)]
    /\ UNCHANGED <<obs, obsm, uns, last, procs, km>>

CallDiffusionMap ==
    /\ fn.pc = "start"
    /\ \E k \in 1..MaxComponents, solver \in Solvers, alpha \in Alphas :
        \E out \in calculate_diffusion_map(fn.W, k, alpha, solver) :
            fn' = [fn EXCEPT !.pc = "returned", !.op = "calculate_diffusion_map",
                             !.n_components = k, !.solver = solver,
                             !.alpha = alpha, !.out = out]
    /\ UNCHANGED <<obs, obsm, uns, last, procs, km>>

NumericNext == CallNormalizedAffinity \/ CallDiffusionMap

SpecNumeric == NumericInit /\ [][NumericNext]_vars

ReturnedFrom(op) == fn.pc = "returned" /\ fn.op = op

\* Every node reaches every other along stored entries read as directed edges.
StronglyConnected(W) ==
    W.n >= 1 /\ \A i \in MatNodes(W) : ReachSet(W, {i}, W.n) = MatNodes(W)

NonIncreasingMagnitude(Lambda) ==
    \A j \in 1..(Len(Lambda) - 1) : Abs(Lambda[j].val) >= Abs(Lambda[j + 1].val)

\* C4: for a connected graph and either solver (with k below the order of the
\* matrix, which both solvers accept), the call returns k - 1 columns and
\* k - 1 eigenvalues, and the eigenvalues returned, which are those before
\* the rescaling, are in descending order of magnitude.
C4_Original ==
    (/\ ReturnedFrom("calculate_diffusion_map")
     /\ fn.solver \in {"randomized", "eigsh"}
     /\ StronglyConnected(fn.W)
     /\ fn.n_components < fn.W.n) =>
        /\ fn.out.err = "none"
        /\ fn.out.Phi_pt.ncols = fn.n_components - 1
        /\ Len(fn.out.Lambda) = fn.n_components - 1
        /\ NormalizedSpectrum(fn.W).exact => NonIncreasingMagnitude(fn.out.Lambda)

ZeroDegreeNodes(W) ==
    {i \in MatNodes(W) : \A e \in DOMAIN W.data : e[1] = i => W.data[e] = 0}

IsSymmetric(W) ==
    \A e \in DOMAIN W.data :
        <<e[2], e[1]>> \in DOMAIN W.data /\ W.data[<<e[2], e[1]>>] = W.data[e]

\* C10 as stated: calculate_normalized_affinity fails whenever a node of a
\* symmetric non-negative matrix has degree zero.
C10_Original ==
    (/\ ReturnedFrom("calculate_normalized_affinity")
     /\ IsSymmetric(fn.W)
     /\ ZeroDegreeNodes(fn.W) # {}) => fn.out.raised

\* C10 amended: calculate_normalized_affinity never fails.  A node of degree
\* zero gets diag 0, W_norm keeps the sparsity pattern of W, and exactly the
\* stored entries in the row or column of a zero-degree node come out
\* non-finite (nan when W is symmetric).
C10_NoFailure ==
    ReturnedFrom("calculate_normalized_affinity") =>
        /\ ~fn.out.raised
        /\ DOMAIN fn.out.W_norm.data = DOMAIN fn.W.data
        /\ \A i \in ZeroDegreeNodes(fn.W) : fn.out.diag[i] = 0
        /\ \A e \in DOMAIN fn.W.data :
              LET x == fn.out.W_norm.data[e]
                  touches == e[1] \in ZeroDegreeNodes(fn.W) \/ e[2] \in ZeroDegreeNodes(fn.W)
              IN  /\ touches <=> x.kind \in {"nan", "inf"}
                  /\ (touches /\ IsSymmetric(fn.W)) => x.kind = "nan"

\* A symmetric matrix with a stored zero weight between two nodes of degree
\* zero was normalised.
C10_Witness ==
    /\ ReturnedFrom("calculate_normalized_affinity")
    /\ IsSymmetric(fn.W)
    /\ \E e \in DOMAIN fn.W.data : e[1] \in ZeroDegreeNodes(fn.W)
    /\ \E i \in MatNodes(fn.W) : i \notin ZeroDegreeNodes(fn.W)

(***************************************************************************)
(* The container                                                           *)
(***************************************************************************)

NumCells == 3

\* The cells, which are also the cells' names (data.obs_names).
Cells == 1..NumCells

\* A Python mapping is a function on the keys present.
EmptyDict == [k \in {} |-> 0]

\* key in d
Has(d, key) == key \in DOMAIN d

\* A mutant of SetItem: an existing column is overwritten from the second
\* cell on only, the first cell keeping its old value.
SetItemFromSecondCell(d, key, value) ==
    [k \in (DOMAIN d) \cup {key} |->
        IF k # key THEN d[k]
        ELSE IF key \in DOMAIN d
             THEN [value EXCEPT !.values =
                     [c \in DOMAIN value.values |->
                        IF c = 1 THEN d[key].values[c] ELSE value.values[c]]]
             ELSE value]

\* d[key] = value
SetItem(d, key, value) ==
    [k \in (DOMAIN d) \cup {key} |-> IF k = key THEN value ELSE d[k]]

\* A dense per-cell matrix: its number of columns and its rows, each row a
\* point on a line (see Points).
Matrix(ncols, rows) == [ncols |-> ncols, rows |-> rows]

(***************************************************************************)
(* Cluster labels (clustering.py 80-82, 148-150, 273-275, 372-374)         *)
(***************************************************************************)

\* str(n) for n >= 0, as its sequence of decimal digits.
RECURSIVE Str(_)
Str(n) == IF n < 10 THEN <<n>> ELSE Str(n \div 10) \o <<n % 10>>

\* a < b as Python compares strings: character by character, a proper
\* prefix first.
LexLess(a, b) ==
    \E i \in 1..(Len(a) + 1) :
        /\ i - 1 <= Len(b)
        /\ \A j \in 1..(i - 1) : a[j] = b[j]
        /\ IF i > Len(a) THEN Len(b) >= i
           ELSE i <= Len(b) /\ a[i] < b[i]

RECURSIVE SeqOfSet(_)
SeqOfSet(S) ==
    IF S = {} THEN <<>>
    ELSE LET x == CHOOSE y \in S : TRUE IN <<x>> \o SeqOfSet(S \ {x})

\* np.unique(labels): the distinct strings, sorted as strings.
NpUnique(labels) == SortSeq(SeqOfSet(Image(labels)), LexLess)

\* The key natsort gives a string of digits: the number it spells.
RECURSIVE NatsortKey(_)
NatsortKey(s) ==
    IF Len(s) = 0 THEN 0
    ELSE 10 * NatsortKey(SubSeq(s, 1, Len(s) - 1)) + s[Len(s)]

\* A mutant of natsorted: the order np.unique produced is kept.
NotSorted(s) == s

\* natsorted(s)
natsorted(s) == SortSeq(s, LAMBDA a, b : NatsortKey(a) < NatsortKey(b))

\* labels = np.array([str(x + 1) for x in partition.membership])
LabelsOf(membership) == [c \in DOMAIN membership |-> Str(membership[c] + 1)]

\* pd.Categorical(values=labels, categories=natsorted(np.unique(labels)))
Categorical(membership) ==
    LET labels == LabelsOf(membership)
    IN  [values |-> labels, categories |-> natsorted(NpUnique(labels))]

(***************************************************************************)
(* The community optimisers                                                *)
(***************************************************************************)

\* The non-decreasing sequences of length len over lo..hi.
RECURSIVE Ascending(_, _, _)
Ascending(len, lo, hi) ==
    IF len = 0 THEN {<<>>}
    ELSE UNION {{<<v>> \o s : s \in Ascending(len - 1, v, hi)} : v \in lo..hi}

\* The memberships an optimiser may return over the nodes D with community
\* ids up to maxc.  The drivers treat every node alike, so of the memberships
\* that differ by a renaming of the nodes one is kept: the non-decreasing one.
Communities(D, maxc) ==
    {[d \in D |-> s[Cardinality({x \in D : x <= d})]] :
        s \in Ascending(Cardinality(D), 0, maxc)}

SetMax(S) == CHOOSE x \in S : \A y \in S : y <= x

\* A mutant of FromCoarsePartition: the aggregate membership is read by the
\* node's own index, not by its initial label.
FromCoarseByIndex(initial, agg) ==
    [c \in DOMAIN initial |-> IF c \in DOMAIN agg THEN agg[c] ELSE initial[c]]

\* partition.from_coarse_partition(partition_agg): a node takes the community
\* of the aggregate node its initial label names (agg lists the aggregate
\* nodes that have members).
FromCoarsePartition(initial, agg) == [c \in DOMAIN initial |-> agg[initial[c]]]

(***************************************************************************)
(* partition_cells_by_kmeans as the spectral drivers call it               *)
(***************************************************************************)

\* The rest of the loop from cluster i on: the label arrays it can end with,
\* or an error.
RECURSIVE RefineFrom(_, _, _, _, _, _, _)
RefineFrom(X, coarse, n_clusters, n_clusters2, i, labels, base_sum) ==
    IF i = n_clusters
    THEN {[err |-> FALSE, labels |-> labels]}
    ELSE LET idx == CoarseIdx(coarse, i)
             nc == FineCount(n_clusters2, idx)
             fits == KMeansFit(X, idx, nc)
         IN  IF fits = {}
             THEN {[err |-> TRUE, labels |-> <<>>]}
             ELSE UNION {RefineFrom(X, coarse, n_clusters, n_clusters2, i + 1,
                                    AssignFine(labels, idx, base_sum, local),
                                    NextBase(base_sum, nc, n_clusters2)) :
                            local \in fits}

partition_cells_by_kmeans(X, n_clusters, n_clusters2) ==
    LET fits == KMeansFit(X, DOMAIN X, n_clusters)
    IN  IF fits = {}
        THEN {[err |-> TRUE, labels |-> <<>>]}
        ELSE UNION {RefineFrom(X, coarse, n_clusters, n_clusters2, 0, coarse, 0) :
                        coarse \in fits}

(***************************************************************************)
(* The drivers                                                             *)
(***************************************************************************)

\* last before any call, and the fields a call fills in.  requested is the
\* rep_kmeans argument, rep_kmeans its value when the call ends, fallbacks the
\* number of times it was switched, fine the k-means labels.
NoCall ==
    [op |-> "none", err |-> "none", rep |-> "", class_label |-> "",
     requested |-> "", rep_kmeans |-> "", fallbacks |-> 0, kmeans_ran |-> FALSE,
     fine |-> <<>>, membership |-> <<>>, n_components |-> 0, solver |-> "",
     roots |-> {}]

Idle == last.op = "none"

NeighborsMissing == "Cannot find affinity matrix. Please run neighbors first!"
DiffmapNeighborsMissing == "Affinity matrix does not exist. Please run neighbors first!"
DiffmapMissing == "Please run diffmap first!"

\* A mutant of Raise: the exception leaves a half-written result behind.
RaiseAfterWrite(call, msg) ==
    /\ last' = [call EXCEPT !.err = msg]
    /\ obs' = SetItem(obs, call.class_label, <<>>)
    /\ UNCHANGED <<obsm, uns>>

\* raise ValueError(msg) before the driver has written anything.
Raise(call, msg) ==
    /\ last' = [call EXCEPT !.err = msg]
    /\ UNCHANGED <<obs, obsm, uns>>

\* The body shared by louvain (66-85) and leiden (130-153).
PlainDriver(op, reps, keys, maxc) ==
    \E rep \in reps, class_label \in keys :
        LET call == [NoCall EXCEPT !.op = op, !.rep = rep, !.class_label = class_label]
        IN  IF ~Has(uns, "W_" \o rep)
            THEN Raise(call, NeighborsMissing)
            ELSE \E membership \in
                        Communities(MatNodes(uns["W_" \o rep]), maxc) :
                    /\ obs' = SetItem(obs, class_label, Categorical(membership))
                    /\ last' = [call EXCEPT !.membership = membership]
                    /\ UNCHANGED <<obsm, uns>>

louvain(reps, keys, maxc) ==
    /\ Idle
    /\ PlainDriver("louvain", reps, keys, maxc)
    /\ UNCHANGED <<procs, km, fn>>

leiden(reps, keys, maxc) ==
    /\ Idle
    /\ PlainDriver("leiden", reps, keys, maxc)
    /\ UNCHANGED <<procs, km, fn>>

\* A mutant of KMeansRep: no fallback, the requested representation is used.
KMeansRepRequested(requested, missing) == requested

\* rep_kmeans after lines 247-249 (346-348).
KMeansRep(requested, missing) == IF missing THEN "pca" ELSE requested

\* The body shared by spectral_louvain (245-280) and spectral_leiden (344-381).
SpectralDriver(op, reps, kreps, keys, K1s, K2s, maxc) ==
    \E rep \in reps, requested \in kreps, class_label \in keys,
       n_clusters \in K1s, n_clusters2 \in K2s :
        LET missing == ~Has(obsm, "X_" \o requested)
            rep_kmeans == KMeansRep(requested, missing)
            call == [NoCall EXCEPT !.op = op, !.rep = rep, !.class_label = class_label,
                                   !.requested = requested, !.rep_kmeans = rep_kmeans,
                                   !.fallbacks = IF missing THEN 1 ELSE 0]
        IN  IF missing /\ ~Has(obsm, "X_" \o rep_kmeans)
            THEN Raise(call, "Please run " \o rep_kmeans \o " first!")
            ELSE IF ~Has(uns, "W_" \o rep)
            THEN Raise(call, NeighborsMissing)
            ELSE \E part \in partition_cells_by_kmeans(obsm["X_" \o rep_kmeans].rows,
                                                       n_clusters, n_clusters2) :
                    IF part.err
                    THEN Raise([call EXCEPT !.kmeans_ran = TRUE], "KMeans: ValueError")
                    ELSE \E agg \in Communities(Image(part.labels), maxc) :
                            LET membership == FromCoarsePartition(part.labels, agg)
                            IN  /\ obs' = SetItem(obs, class_label, Categorical(membership))
                                /\ last' = [call EXCEPT !.kmeans_ran = TRUE,
                                                        !.fine = part.labels,
                                                        !.membership = membership]
                                /\ UNCHANGED <<obsm, uns>>

spectral_louvain(reps, kreps, keys, K1s, K2s, maxc) ==
    /\ Idle
    /\ SpectralDriver("spectral_louvain", reps, kreps, keys, K1s, K2s, maxc)
    /\ UNCHANGED <<procs, km, fn>>

spectral_leiden(reps, kreps, keys, K1s, K2s, maxc) ==
    /\ Idle
    /\ SpectralDriver("spectral_leiden", reps, kreps, keys, K1s, K2s, maxc)
    /\ UNCHANGED <<procs, km, fn>>

\* diffmap (77-94).  rowsets: the coordinates the solver may have produced.
diffmap(reps, ks, solvers, alphas, rowsets) ==
    /\ Idle
    /\ \E rep \in reps, n_components \in ks, solver \in solvers, alpha \in alphas :
        LET call == [NoCall EXCEPT !.op = "diffmap", !.rep = rep,
                                   !.n_components = n_components, !.solver = solver]
        IN  IF ~Has(uns, "W_" \o rep)
            THEN Raise(call, DiffmapNeighborsMissing)
            ELSE \E out \in calculate_diffusion_map(uns["W_" \o rep], n_components,
                                                    alpha, solver) :
                    IF out.err # "none"
                    THEN Raise(call, out.err)
                    ELSE \E rows \in (IF out.Phi_pt.ncols = 0
                                      THEN {[c \in Cells |-> 0]} ELSE rowsets) :
                            /\ obsm' = SetItem(obsm, "X_diffmap",
                                               [ncols |-> out.Phi_pt.ncols, rows |-> rows,
                                                scaled |-> out.Phi_pt.scaled])
                            /\ uns' = SetItem(uns, "diffmap_evals", out.Lambda)
                            /\ last' = call
                            /\ UNCHANGED obs
    /\ UNCHANGED <<procs, km, fn>>

PcaComponents == 3

\* "X_diffmap" in data.obsm.keys()
DiffmapPresent(m) == Has(m, "X_diffmap")

\* reduce_diffmap_to_3d (101-110); PCA needs PcaComponents rows and columns.
reduce_diffmap_to_3d ==
    /\ Idle
    /\ LET call == [NoCall EXCEPT !.op = "reduce_diffmap_to_3d"]
       IN  IF ~DiffmapPresent(obsm)
           THEN Raise(call, DiffmapMissing)
           ELSE LET X == obsm["X_diffmap"]
                IN  IF Min(Cardinality(DOMAIN X.rows), X.ncols) < PcaComponents
                    THEN Raise(call, "PCA: ValueError")
                    ELSE /\ obsm' = SetItem(obsm, "X_diffmap_pca",
                                            [ncols |-> PcaComponents, pca_of |-> X.rows])
                         /\ last' = call
                         /\ UNCHANGED <<obs, uns>>
    /\ UNCHANGED <<procs, km, fn>>

\* A quotient of two numbers as numpy divides float arrays.
Quot(num, den) == [kind |-> "fin", num |-> num, den |-> den]
QNan == [kind |-> "nan", num |-> 0, den |-> 1]
QInf == [kind |-> "inf", num |-> 0, den |-> 1]

\* A mutant of TrueDivide: a zero range is special-cased to 0.0.
GuardedDivide(num, den) == IF den = 0 THEN Quot(0, 1) ELSE Quot(num, den)

\* num / den for num >= 0: 0/0 is nan and x/0 is inf, with a warning only.
TrueDivide(num, den) ==
    CASE den = 0 /\ num = 0 -> QNan
      [] den = 0 /\ num # 0 -> QInf
      [] OTHER -> Quot(num, den)

\* For each cell the sum of its distances to the cells of mask:
\* np.mean(euclidean_distances(X[mask, :], X), axis=0) is this sum over the
\* size of mask.
DistanceSums(rows, mask) ==
    [j \in DOMAIN rows |->
        SumOver([i \in mask |-> Abs(rows[i] - rows[j])], mask)]

SetMin(S) == CHOOSE x \in S : \A y \in S : x <= y

\* (distances - dmin) / (dmax - dmin); the size of mask cancels.
Pseudotime(rows, mask) ==
    LET sums == DistanceSums(rows, mask)
        smin == SetMin(Image(sums))
        smax == SetMax(Image(sums))
    IN  [j \in DOMAIN rows |-> TrueDivide(sums[j] - smin, smax - smin)]

\* A mutant of EchoRoots: the roots are stored before the check.
EchoRootsFirst(u, roots, present) == SetItem(u, "roots", roots)

\* data.uns["roots"] = roots (122) is reached only past the check of 119-120.
EchoRoots(u, roots, present) == IF present THEN SetItem(u, "roots", roots) ELSE u

\* calc_pseudotime (117-135).  euclidean_distances refuses an empty X[mask, :]
\* and a matrix without columns.
calc_pseudotime(rootsets) ==
    /\ Idle
    /\ \E roots \in rootsets :
        LET call == [NoCall EXCEPT !.op = "calc_pseudotime", !.roots = roots]
        IN  /\ uns' = EchoRoots(uns, roots, DiffmapPresent(obsm))
            /\ IF ~DiffmapPresent(obsm)
               THEN /\ last' = [call EXCEPT !.err = DiffmapMissing]
                    /\ UNCHANGED <<obs, obsm>>
               ELSE LET X == obsm["X_diffmap"]
                        mask == {c \in DOMAIN X.rows : c \in roots}
                    IN  IF mask = {} \/ X.ncols = 0
                        THEN /\ last' = [call EXCEPT
                                            !.err = "euclidean_distances: ValueError"]
                             /\ UNCHANGED <<obs, obsm>>
                        ELSE /\ obs' = SetItem(obs, "pseudotime", Pseudotime(X.rows, mask))
                             /\ last' = call
                             /\ UNCHANGED obsm
    /\ UNCHANGED <<procs, km, fn>>

(***************************************************************************)
(* One driver call on a container as earlier steps can have left it        *)
(***************************************************************************)

MaxCommunity == 1
MaxDC == 4

Reps == {"pca", "diffmap"}
ClassLabels == {"louvain_labels", "leiden_labels"}

\* The rows of a representation: all cells at one point, or spread over the
\* points.
RowFamily == {[c \in Cells |-> 0], [c \in Cells |-> Min(c - 1, NumPoints - 1)]}

\* A star on the cells, and the same with the last cell cut off.
StarGraph == SymMatrix(NumCells, [e \in {<<1, j>> : j \in 2..NumCells} |-> 1])
SplitGraph == SymMatrix(NumCells, [e \in {<<1, j>> : j \in 2..(NumCells - 1)} |-> 1])

\* The sets of root names: cells, and the name 0 of no cell.
RootSets == SUBSET (0..NumCells)

InitUns == {EmptyDict} \cup {SetItem(EmptyDict, "W_pca", W) : W \in {StarGraph, SplitGraph}}

InitObsm ==
    {[k \in K |-> IF k = "X_pca" THEN Matrix(PcaComponents, p) ELSE Matrix(c, q)] :
        K \in SUBSET {"X_pca", "X_diffmap"},
        p \in RowFamily, q \in RowFamily, c \in {PcaComponents - 1, PcaComponents}}

InitObs ==
    {EmptyDict, SetItem(EmptyDict, "louvain_labels", Categorical([c \in Cells |-> 0]))}

Init ==
    /\ obs \in InitObs
    /\ obsm \in InitObsm
    /\ uns \in InitUns
    /\ last = NoCall
    /\ procs = Unused /\ km = Unused /\ fn = Unused

Next ==
    \/ louvain(Reps, {"louvain_labels"}, MaxCommunity)
    \/ leiden(Reps, {"louvain_labels"}, MaxCommunity)
    \/ spectral_louvain(Reps, Reps, {"louvain_labels"}, 1..MaxK1, 1..MaxK2,
                        MaxCommunity)
    \/ spectral_leiden(Reps, Reps, {"louvain_labels"}, 1..MaxK1, 1..MaxK2,
                       MaxCommunity)
    \/ diffmap(Reps, 1..MaxDC, Solvers, Alphas, RowFamily)
    \/ reduce_diffmap_to_3d
    \/ calc_pseudotime(RootSets)

Spec == Init /\ [][Next]_vars

(***************************************************************************)
(* Properties of one driver call                                           *)
(***************************************************************************)

Zero == Quot(0, 1)

AllCellsRoots ==
    /\ last.op = "calc_pseudotime"
    /\ last.err = "none"
    /\ Cells \subseteq last.roots

\* C5, as stated: when every cell is a root, calc_pseudotime stores the
\* pseudo-time 0.0 for every cell; a zero range max == min does not show as a
\* division by zero.
C5_Original ==
    AllCellsRoots => \A c \in Cells : obs["pseudotime"][c] = Zero

\* The distance from cell c to all the cells together.
TotalDistance(c) ==
    LET rows == obsm["X_diffmap"].rows
    IN  SumOver([r \in Cells |-> IF rows[r] < rows[c] THEN rows[c] - rows[r]
                                 ELSE rows[r] - rows[c]], Cells)

ZeroRange == \A a, b \in Cells : TotalDistance(a) = TotalDistance(b)

\* C5, amended: when every cell is a root, calc_pseudotime stores for each
\* cell its mean distance to all cells, min-max normalised: 0.0 for the cells
\* of least mean distance, 1.0 for those of greatest, in between otherwise; and
\* when all the mean distances are equal (max == min) it stores nan, the
\* result of 0/0, for every cell.
C5_AllRoots ==
    AllCellsRoots =>
        LET pt == obs["pseudotime"]
        IN  IF ZeroRange
            THEN \A c \in Cells : pt[c].kind = "nan"
            ELSE \A c \in Cells :
                    /\ pt[c].kind = "fin"
                    /\ pt[c].den > 0
                    /\ 0 <= pt[c].num /\ pt[c].num <= pt[c].den
                    /\ \A d \in Cells :
                        /\ TotalDistance(c) <= TotalDistance(d) =>
                                pt[c].num * pt[d].den <= pt[d].num * pt[c].den
                        /\ (\A e \in Cells : TotalDistance(c) <= TotalDistance(e)) =>
                                pt[c].num = 0
                        /\ (\A e \in Cells : TotalDistance(e) <= TotalDistance(c)) =>
                                pt[c].num = pt[c].den

C5_Witness ==
    /\ AllCellsRoots
    /\ ZeroRange
    /\ Has(obs, "pseudotime")
    /\ \A c \in Cells : obs["pseudotime"][c] = QNan
    /\ uns["roots"] = last.roots

AffinityDrivers == {"louvain", "leiden", "spectral_louvain", "spectral_leiden", "diffmap"}
SpectralDrivers == {"spectral_louvain", "spectral_leiden"}
RunNeighborsFirst == {NeighborsMissing, DiffmapNeighborsMissing}

\* A step that is a call of one of the five drivers on a container without
\* the affinity matrix of the representation asked for.
CalledWithoutAffinity ==
    /\ last.op = "none"
    /\ last'.op \in AffinityDrivers
    /\ ~Has(uns, "W_" \o last'.rep)

\* C6, as stated: each of the five drivers called without W_<rep> fails with
\* the "run neighbors first" error and leaves obs, obsm and uns unchanged.
C6_Original ==
    [][CalledWithoutAffinity =>
            /\ last'.err \in RunNeighborsFirst
            /\ UNCHANGED <<obs, obsm, uns>>]_vars

\* C6, amended: each of the five drivers called without W_<rep> fails and
\* leaves obs, obsm and uns unchanged; the error is "run neighbors first",
\* except that a spectral driver called without X_<rep_kmeans> and without
\* X_pca fails with "Please run pca first!", which it checks before.
C6_Unchanged ==
    [][CalledWithoutAffinity =>
            /\ UNCHANGED <<obs, obsm, uns>>
            /\ IF /\ last'.op \in SpectralDrivers
                  /\ ~Has(obsm, "X_" \o last'.requested)
                  /\ ~Has(obsm, "X_pca")
               THEN last'.err = "Please run pca first!"
               ELSE last'.err \in RunNeighborsFirst]_vars

C6_Witness ==
    /\ last.op = "spectral_leiden"
    /\ last.requested = "diffmap"
    /\ ~Has(uns, "W_" \o last.rep)
    /\ Has(obsm, "X_pca")
    /\ Has(obs, "louvain_labels")
    /\ last.err = NeighborsMissing

\* C7: in a call of a spectral driver, an absent X_<rep_kmeans> makes the
\* driver switch once to "pca"; the call fails with "Please run pca first!"
\* exactly when X_pca is absent as well; a present X_<rep_kmeans> is kept;
\* and when the affinity matrix is there k-means runs on the rows of the
\* representation so chosen (cells with equal rows there get equal labels).
C7_Fallback ==
    last.op \in SpectralDrivers =>
        LET reqAbsent == ~Has(obsm, "X_" \o last.requested)
            pcaAbsent == ~Has(obsm, "X_pca")
        IN  /\ reqAbsent => last.fallbacks = 1 /\ last.rep_kmeans = "pca"
            /\ ~reqAbsent => last.fallbacks = 0 /\ last.rep_kmeans = last.requested
            /\ (last.err = "Please run pca first!") <=> (reqAbsent /\ pcaAbsent)
            /\ last.kmeans_ran <=>
                    (~(reqAbsent /\ pcaAbsent) /\ Has(uns, "W_" \o last.rep))
            /\ (last.kmeans_ran /\ last.err = "none") =>
                    LET rows == obsm["X_" \o last.rep_kmeans].rows
                    IN  /\ DOMAIN last.fine = DOMAIN rows
                        /\ \A a, b \in DOMAIN rows :
                                rows[a] = rows[b] => last.fine[a] = last.fine[b]

C7_Witness ==
    /\ last.op = "spectral_louvain"
    /\ last.requested = "diffmap"
    /\ ~Has(obsm, "X_diffmap")
    /\ last.rep_kmeans = "pca"
    /\ last.err = "none"
    /\ Has(obsm, "X_pca")
    /\ Cardinality(Image(last.fine)) > 1

\* A step that is a call of reduce_diffmap_to_3d or calc_pseudotime on a
\* container without X_diffmap.
CalledWithoutDiffmap ==
    /\ last.op = "none"
    /\ last'.op \in {"reduce_diffmap_to_3d", "calc_pseudotime"}
    /\ ~Has(obsm, "X_diffmap")

\* C9: reduce_diffmap_to_3d and calc_pseudotime called without X_diffmap fail
\* with "Please run diffmap first!" and have written nothing: obs (pseudotime),
\* obsm (X_diffmap_pca) and uns (roots) are as before the call.
C9_FailsBeforeWriting ==
    [][CalledWithoutDiffmap =>
            /\ last'.err = "Please run diffmap first!"
            /\ UNCHANGED <<obs, obsm, uns>>]_vars

C9_Witness ==
    /\ last.op = "calc_pseudotime"
    /\ last.roots # {}
    /\ last.err = "Please run diffmap first!"
    /\ ~Has(obsm, "X_diffmap")
    /\ ~Has(uns, "roots")

(***************************************************************************)
(* The clustering drivers with up to ten communities                       *)
(***************************************************************************)

MaxLabelCommunity == 9

LabelsInit ==
    /\ obs = EmptyDict
    /\ obsm \in {SetItem(EmptyDict, "X_pca", Matrix(PcaComponents, r)) : r \in RowFamily}
    /\ uns = SetItem(EmptyDict, "W_pca", StarGraph)
    /\ last = NoCall
    /\ procs = Unused /\ km = Unused /\ fn = Unused

LabelsNext ==
    \/ louvain({"pca"}, {"louvain_labels"}, MaxLabelCommunity)
    \/ leiden({"pca"}, {"leiden_labels"}, MaxLabelCommunity)
    \/ spectral_louvain({"pca"}, {"pca"}, {"spectral_louvain_labels"},
                        1..MaxK1, 1..MaxK2, MaxLabelCommunity)
    \/ spectral_leiden({"pca"}, {"pca"}, {"spectral_leiden_labels"},
                       1..MaxK1, 1..MaxK2, MaxLabelCommunity)

SpecLabels == LabelsInit /\ [][LabelsNext]_vars

RECURSIVE Pow10(_)
Pow10(k) == IF k = 0 THEN 1 ELSE 10 * Pow10(k - 1)

\* The number a string of digits spells.
DecimalValue(s) == SumOver([i \in 1..Len(s) |-> s[i] * Pow10(Len(s) - i)], 1..Len(s))

\* s spells the number n in decimal, without leading zeros.
Spells(s, n) ==
    /\ Len(s) >= 1
    /\ \A i \in 1..Len(s) : s[i] \in 0..9
    /\ Len(s) > 1 => s[1] # 0
    /\ n = DecimalValue(s)

ClusteringDrivers == {"louvain", "leiden", "spectral_louvain", "spectral_leiden"}

\* C2: after a call of one of the four clustering drivers the label of each
\* cell is the decimal string of its membership plus one, and the categories
\* are the distinct labels, each once, in increasing numeric order.
C2_Labels ==
    (last.op \in ClusteringDrivers /\ last.err = "none") =>
        LET col == obs[last.class_label]
            cats == col.categories
        IN  /\ \A c \in Cells : Spells(col.values[c], last.membership[c] + 1)
            /\ {cats[i] : i \in DOMAIN cats} = Image(col.values)
            /\ \A i, j \in DOMAIN cats :
                    i < j => DecimalValue(cats[i]) < DecimalValue(cats[j])

C2_Witness ==
    /\ last.op = "spectral_leiden"
    /\ last.err = "none"
    /\ obs[last.class_label].categories = <<<<1>>, <<2>>, <<1, 0>>>>

(***************************************************************************)
(* Two clustering drivers on one container                                 *)
(***************************************************************************)

Threads == {1, 2}

\* A driver about to start: its arguments are its local variables.
Started == [pc : {"start"}, op : {"louvain", "leiden"}, rep : {"pca"},
            class_label : ClassLabels, membership : {<<>>}]

ConcInit ==
    /\ obs \in InitObs
    /\ obsm = EmptyDict
    /\ uns \in InitUns
    /\ last = [NoCall EXCEPT !.op = "threads"]
    /\ procs \in [Threads -> Started]
    /\ km = Unused /\ fn = Unused

\* Lines 68-71 (132-135): the check of the affinity matrix.
ConcCheck(t) ==
    /\ procs[t].pc = "start"
    /\ procs' = [procs EXCEPT ![t].pc =
                    IF Has(uns, "W_" \o procs[t].rep) THEN "checked" ELSE "failed"]
    /\ UNCHANGED <<obs, obsm, uns, last, km, fn>>

\* Lines 73-78 (137-146): the optimiser runs on the driver's own graph.
ConcOptimise(t) ==
    /\ procs[t].pc = "checked"
    /\ \E membership \in Communities(MatNodes(uns["W_" \o procs[t].rep]),
                                     MaxCommunity) :
            procs' = [procs EXCEPT ![t].pc = "optimised", ![t].membership = membership]
    /\ UNCHANGED <<obs, obsm, uns, last, km, fn>>

\* Lines 80-82 (148-150): the labels are built locally and stored by one
\* assignment to the container.  last.writer records who stored last.
ConcWrite(t) ==
    /\ procs[t].pc = "optimised"
    /\ obs' = SetItem(obs, procs[t].class_label, Categorical(procs[t].membership))
    /\ procs' = [procs EXCEPT ![t].pc = "done"]
    /\ last' = [last EXCEPT !.rep = IF t = 1 THEN "thread 1" ELSE "thread 2"]
    /\ UNCHANGED <<obsm, uns, km, fn>>

ConcNext == \E t \in Threads : ConcCheck(t) \/ ConcOptimise(t) \/ ConcWrite(t)

SpecConc == ConcInit /\ [][ConcNext]_vars

LastWriter == IF last.rep = "thread 1" THEN 1 ELSE 2

BothDone == \A t \in Threads : procs[t].pc = "done"

AtEmptyCluster ==
    /\ km.pc = "loop"
    /\ km.i < km.n_clusters
    /\ CoarseIdx(km.coarse, km.i) = {}

\* C11, as stated: at a coarse cluster index that received no rows the loop
\* goes on to the next index without error, with the running offset and
\* every label as they were.
C11_Original ==
    [][AtEmptyCluster =>
            /\ km'.pc = "loop"
            /\ km'.i = km.i + 1
            /\ km'.base_sum = km.base_sum
            /\ km'.labels = km.labels]_vars

(***************************************************************************)
(* diffmap called again and again on one container                         *)
(***************************************************************************)

DiffmapInit ==
    /\ obs \in InitObs
    /\ obsm = SetItem(EmptyDict, "X_pca", Matrix(PcaComponents, [c \in Cells |-> 0]))
    /\ uns \in InitUns
    /\ last = NoCall
    /\ procs = Unused /\ km = Unused /\ fn = Unused

\* The call has returned or raised; the caller goes on to its next call.
Returned ==
    /\ last.op # "none"
    /\ last' = NoCall
    /\ UNCHANGED <<obs, obsm, uns, procs, km, fn>>

DiffmapNext ==
    \/ diffmap(Reps, 1..MaxDC, Solvers, Alphas, RowFamily)
    \/ Returned

SpecDiffmap == DiffmapInit /\ [][DiffmapNext]_vars

\* d and e differ at most at key, which e has.
SameBut(d, e, key) ==
    /\ DOMAIN e = (DOMAIN d) \cup {key}
    /\ \A k \in (DOMAIN d) \ {key} : e[k] = d[k]

\* C12: a call of diffmap that fails leaves obs, obsm and uns as they were; a
\* call that succeeds stores X_diffmap and diffmap_evals and nothing else, and
\* diffmap_evals holds, component by component, the eigenvalues that the
\* stored coordinates were rescaled from.
C12_NoPartialResult ==
    [][(last.op = "none" /\ last'.op = "diffmap") =>
            IF last'.err # "none"
            THEN UNCHANGED <<obs, obsm, uns>>
            ELSE /\ obs' = obs
                 /\ SameBut(obsm, obsm', "X_diffmap")
                 /\ SameBut(uns, uns', "diffmap_evals")
                 /\ LET evals == uns'["diffmap_evals"]
                        X == obsm'["X_diffmap"]
                    IN  /\ Len(evals) = X.ncols
                        /\ Len(X.scaled) = X.ncols
                        /\ \A j \in 1..X.ncols :
                            /\ X.scaled[j].lambda = evals[j]
                            /\ "alpha" \notin DOMAIN evals[j]]_vars

\* A call failed in the solver on a container that holds the results of an
\* earlier call.
C12_Witness ==
    /\ last.op = "diffmap"
    /\ last.err = "eigsh: k >= N"
    /\ Has(obsm, "X_diffmap")
    /\ Has(uns, "diffmap_evals")
    /\ Len(uns["diffmap_evals"]) = 2
    /\ obsm["X_diffmap"].ncols = 2

(***************************************************************************)
(* The spectral drivers' labels against the k-means partition              *)
(***************************************************************************)

\* C13: after a call of a spectral driver, two cells with the same fine
\* k-means label have the same community and the same final label.
C13_Coarsening ==
    (last.op \in SpectralDrivers /\ last.err = "none") =>
        \A a, b \in Cells :
            last.fine[a] = last.fine[b] =>
                /\ last.membership[a] = last.membership[b]
                /\ obs[last.class_label].values[a] = obs[last.class_label].values[b]

\* Two cells share a fine label, a third has another fine label and ends in
\* another community.
C13_Witness ==
    /\ last.op = "spectral_leiden"
    /\ last.err = "none"
    /\ \E a, b, c \in Cells :
        /\ a # b
        /\ last.fine[a] = last.fine[b]
        /\ last.fine[c] # last.fine[a]
        /\ obs[last.class_label].values[c] # obs[last.class_label].values[a]

====
